---- MODULE Spec2Model ----
(***************************************************************************)
(* Trap, exception and system-call dispatch of the JOS kernel              *)
(* (kern/trap.c): boot-time construction and loading of the gate table,    *)
(* the top-level trap entry, the dispatcher and its handlers.              *)
(*                                                                         *)
(* Machine words are modelled 30 bits wide (WordMod), the widest power of  *)
(* two TLC's integers leave headroom for; addresses are small stand-ins.   *)
(***************************************************************************)
EXTENDS Integers, Sequences, FiniteSets, TLC

(***************************************************************************)
(* Bounds of the model.                                                    *)
(***************************************************************************)
\* number of environment slots (envs[1..NEnv])
NEnv == 2
\* number of traps taken in one behaviour
MaxTraps == 1
\* register files of the input frames are RegFile(0) .. RegFile(MaxSeed)
MaxSeed == 0
\* trapname is applied to -MaxNeg .. MaxTrapno
MaxNeg == 3
MaxTrapno == 50
\* the origin tests are applied to the code-segment values 0 .. MaxCs
MaxCs == 31

(***************************************************************************)
(* Program constants (inc/trap.h, inc/memlayout.h, inc/mmu.h), as used in  *)
(* kern/trap.c.                                                            *)
(***************************************************************************)
T_DIVIDE == 0
T_DEBUG == 1
T_NMI == 2
T_BRKPT == 3
T_OFLOW == 4
T_BOUND == 5
T_ILLOP == 6
T_DEVICE == 7
T_DBLFLT == 8
T_TSS == 10
T_SEGNP == 11
T_STACK == 12
T_GPFLT == 13
T_PGFLT == 14
T_FPERR == 16
T_ALIGN == 17
T_MCHK == 18
T_SIMDERR == 19
T_SYSCALL == 48

GD_KT == 8
GD_KD == 16
GD_UT == 24
GD_UD == 32
GD_TSS0 == 40
FL_IF == 512
STS_T32A == 9
\* struct Gatedesc idt[256]
NIDT == 256

KSTACKTOP == "KSTACKTOP"
WordMod == 2^30

\* enum of env_status (inc/env.h)
ENV_FREE == "ENV_FREE"
ENV_RUNNABLE == "ENV_RUNNABLE"
ENV_RUNNING == "ENV_RUNNING"

NULL == 0
Envs == 1..NEnv

(***************************************************************************)
(* Pointers to a struct Trapframe: NULL, the frame the entry stub built on *)
(* the kernel stack, or the env_tf member of an environment.               *)
(***************************************************************************)
NullPtr == [kind |-> "null", env |-> 0]
StackPtr == [kind |-> "stack", env |-> 0]
EnvTfPtr(e) == [kind |-> "env_tf", env |-> e]

(***************************************************************************)
(* Gate descriptors.  SETGATE(gate, istrap, sel, off, dpl) fills a gate    *)
(* and marks it present; an entry stub trap_N is named by its number N.    *)
(***************************************************************************)
ZeroGate == [gd_p |-> 0, gd_istrap |-> 0, gd_sel |-> 0, gd_off |-> 0, gd_dpl |-> 0]
SETGATE(istrap, sel, off, dpl) ==
    [gd_p |-> 1, gd_istrap |-> istrap, gd_sel |-> sel, gd_off |-> off, gd_dpl |-> dpl]

\* trap_init with the page-fault gate opened to user level
TrapInitGatesPgfltUser ==
    << [vec |-> T_DIVIDE,  gate |-> SETGATE(0, GD_KT, 0, 0)],
       [vec |-> T_DEBUG,   gate |-> SETGATE(0, GD_KT, 1, 0)],
       [vec |-> T_NMI,     gate |-> SETGATE(0, GD_KT, 2, 0)],
       [vec |-> T_BRKPT,   gate |-> SETGATE(0, GD_KT, 3, 3)],
       [vec |-> T_OFLOW,   gate |-> SETGATE(0, GD_KT, 4, 0)],
       [vec |-> T_BOUND,   gate |-> SETGATE(0, GD_KT, 5, 0)],
       [vec |-> T_ILLOP,   gate |-> SETGATE(0, GD_KT, 6, 0)],
       [vec |-> T_DEVICE,  gate |-> SETGATE(0, GD_KT, 7, 0)],
       [vec |-> T_DBLFLT,  gate |-> SETGATE(0, GD_KT, 8, 0)],
       [vec |-> T_TSS,     gate |-> SETGATE(0, GD_KT, 10, 0)],
       [vec |-> T_SEGNP,   gate |-> SETGATE(0, GD_KT, 11, 0)],
       [vec |-> T_STACK,   gate |-> SETGATE(0, GD_KT, 12, 0)],
       [vec |-> T_GPFLT,   gate |-> SETGATE(0, GD_KT, 13, 0)],
       [vec |-> T_PGFLT,   gate |-> SETGATE(0, GD_KT, 14, 3)],
       [vec |-> T_FPERR,   gate |-> SETGATE(0, GD_KT, 16, 0)],
       [vec |-> T_ALIGN,   gate |-> SETGATE(0, GD_KT, 17, 0)],
       [vec |-> T_MCHK,    gate |-> SETGATE(0, GD_KT, 18, 0)],
       [vec |-> T_SIMDERR, gate |-> SETGATE(0, GD_KT, 19, 0)],
       [vec |-> T_SYSCALL, gate |-> SETGATE(0, GD_KT, 48, 3)] >>

\* the SETGATE statements of trap_init, in program order
TrapInitGates ==
    << [vec |-> T_DIVIDE,  gate |-> SETGATE(0, GD_KT, 0, 0)],
       [vec |-> T_DEBUG,   gate |-> SETGATE(0, GD_KT, 1, 0)],
       [vec |-> T_NMI,     gate |-> SETGATE(0, GD_KT, 2, 0)],
       [vec |-> T_BRKPT,   gate |-> SETGATE(0, GD_KT, 3, 3)],
       [vec |-> T_OFLOW,   gate |-> SETGATE(0, GD_KT, 4, 0)],
       [vec |-> T_BOUND,   gate |-> SETGATE(0, GD_KT, 5, 0)],
       [vec |-> T_ILLOP,   gate |-> SETGATE(0, GD_KT, 6, 0)],
       [vec |-> T_DEVICE,  gate |-> SETGATE(0, GD_KT, 7, 0)],
       [vec |-> T_DBLFLT,  gate |-> SETGATE(0, GD_KT, 8, 0)],
       [vec |-> T_TSS,     gate |-> SETGATE(0, GD_KT, 10, 0)],
       [vec |-> T_SEGNP,   gate |-> SETGATE(0, GD_KT, 11, 0)],
       [vec |-> T_STACK,   gate |-> SETGATE(0, GD_KT, 12, 0)],
       [vec |-> T_GPFLT,   gate |-> SETGATE(0, GD_KT, 13, 0)],
       [vec |-> T_PGFLT,   gate |-> SETGATE(0, GD_KT, 14, 0)],
       [vec |-> T_FPERR,   gate |-> SETGATE(0, GD_KT, 16, 0)],
       [vec |-> T_ALIGN,   gate |-> SETGATE(0, GD_KT, 17, 0)],
       [vec |-> T_MCHK,    gate |-> SETGATE(0, GD_KT, 18, 0)],
       [vec |-> T_SIMDERR, gate |-> SETGATE(0, GD_KT, 19, 0)],
       [vec |-> T_SYSCALL, gate |-> SETGATE(0, GD_KT, 48, 3)] >>

\* trap_init_percpu loading the task register before the descriptor is written
PercpuStepsLtrFirst == << "ts_esp0", "ts_ss0", "ltr", "gdt_tss", "gdt_sd_s", "lidt" >>

\* the statements of trap_init_percpu, in program order
PercpuSteps == << "ts_esp0", "ts_ss0", "gdt_tss", "gdt_sd_s", "ltr", "lidt" >>

\* SEG16(type, base, lim, dpl) for the TSS slot of the gdt
ZeroSeg == [sd_type |-> 0, sd_base |-> "0", sd_s |-> 0, sd_dpl |-> 0, sd_p |-> 0]
SEG16(type, base, dpl) ==
    [sd_type |-> type, sd_base |-> base, sd_s |-> 1, sd_dpl |-> dpl, sd_p |-> 1]

(***************************************************************************)
(* The exception catalog.                                                  *)
(***************************************************************************)
\* the catalog without a name for vector 9
excnamesNoCoproc ==
    << "Divide error", "Debug", "Non-Maskable Interrupt", "Breakpoint",
       "Overflow", "BOUND Range Exceeded", "Invalid Opcode",
       "Device Not Available", "Double Fault", "(unknown trap)",
       "Invalid TSS", "Segment Not Present", "Stack Fault",
       "General Protection", "Page Fault", "(unknown trap)",
       "x87 FPU Floating-Point Error", "Alignment Check", "Machine-Check",
       "SIMD Floating-Point Exception" >>

\* static const char *const excnames[]
excnames ==
    << "Divide error", "Debug", "Non-Maskable Interrupt", "Breakpoint",
       "Overflow", "BOUND Range Exceeded", "Invalid Opcode",
       "Device Not Available", "Double Fault", "Coprocessor Segment Overrun",
       "Invalid TSS", "Segment Not Present", "Stack Fault",
       "General Protection", "Page Fault", "(unknown trap)",
       "x87 FPU Floating-Point Error", "Alignment Check", "Machine-Check",
       "SIMD Floating-Point Exception" >>

\* excnames[i] of the C array (index from 0); a read past either end of the
\* array is undefined and is marked as such
ExcnamesAt(i) ==
    IF i + 1 \in DOMAIN excnames THEN excnames[i + 1] ELSE "<read outside excnames>"

\* trapname comparing trapno as a signed int
trapnameSignedCompare(trapno) ==
    IF trapno < Len(excnames) THEN ExcnamesAt(trapno)
    ELSE IF trapno = T_SYSCALL THEN "System call"
    ELSE "(unknown trap)"

\* the int trapno is compared with the unsigned ARRAY_SIZE(excnames)
trapname(trapno) ==
    IF (trapno % WordMod) < Len(excnames) THEN ExcnamesAt(trapno % WordMod)
    ELSE IF trapno = T_SYSCALL THEN "System call"
    ELSE "(unknown trap)"

(***************************************************************************)
(* Trap frames.                                                            *)
(***************************************************************************)
RegFile(s) ==
    [reg_edi |-> s + 1, reg_esi |-> s + 2, reg_ebp |-> s + 3, reg_oesp |-> s + 4,
     reg_ebx |-> s + 5, reg_edx |-> s + 6, reg_ecx |-> s + 7, reg_eax |-> s + 8]

\* (number=5, a1=10, a2=20, a3=0, a4=0, a5=0)
SyscallScenarioRegs ==
    [reg_edi |-> 0, reg_esi |-> 0, reg_ebp |-> 0, reg_oesp |-> 0,
     reg_ebx |-> 0, reg_edx |-> 10, reg_ecx |-> 20, reg_eax |-> 5]

ZeroFrame ==
    [tf_regs |-> [reg_edi |-> 0, reg_esi |-> 0, reg_ebp |-> 0, reg_oesp |-> 0,
                  reg_ebx |-> 0, reg_edx |-> 0, reg_ecx |-> 0, reg_eax |-> 0],
     tf_es |-> 0, tf_ds |-> 0, tf_trapno |-> 0, tf_err |-> 0, tf_eip |-> 0,
     tf_cs |-> 0, tf_eflags |-> 0, tf_esp |-> 0, tf_ss |-> 0]

\* the entry stubs trap_N declared extern: the trap numbers a frame carries
StubVectors == (0..8) \cup (10..14) \cup (16..19) \cup {48}

\* instruction pointers and fault addresses of the input frames
\* 0x00801234
UserEip == 8 * 2^20 + 4660
\* stand-in for a kernel text address
KernEip == 2^20 + 12
\* stand-in for a user stack address
UserEsp == 14 * 2^20 + 4096
CR2Vals == {514703087, 0}   \* stand-in for 0xDEADBEEF, and a null dereference

UserFrame(regs, trapno, s) ==
    [tf_regs |-> regs, tf_es |-> GD_UD + 3, tf_ds |-> GD_UD + 3,
     tf_trapno |-> trapno, tf_err |-> (4 + s) % 8, tf_eip |-> UserEip + s,
     tf_cs |-> GD_UT + 3, tf_eflags |-> 2, tf_esp |-> UserEsp - s,
     tf_ss |-> GD_UD + 3]

KernelFrame(regs, trapno, s) ==
    [tf_regs |-> regs, tf_es |-> GD_KD, tf_ds |-> GD_KD,
     tf_trapno |-> trapno, tf_err |-> s % 4, tf_eip |-> KernEip + s,
     tf_cs |-> GD_KT, tf_eflags |-> 2, tf_esp |-> 0, tf_ss |-> 0]

UserFrames ==
    {UserFrame(RegFile(s), t, s) : s \in 0..MaxSeed, t \in StubVectors}
    \cup {UserFrame(SyscallScenarioRegs, T_SYSCALL, 0)}

KernelFrames ==
    {KernelFrame(RegFile(s), t, s) : s \in 0..MaxSeed, t \in StubVectors}

\* values read_eflags() may return on entry to trap
EflagsVals == {2, 2 + FL_IF}

\* values the syscall implementation returns (negative: an error code)
SyscallRets == {-3, 0, 30}

VARIABLES
    pc,         \* control position of the kernel
    gate_k,     \* trap_init: index of the next SETGATE statement
    percpu_k,   \* trap_init_percpu: index of the next statement
    idt,        \* struct Gatedesc idt[256]
    idtr,       \* the table loaded by lidt ("none" before)
    ts,         \* static struct Taskstate ts
    gdt_tss,    \* gdt[GD_TSS0 >> 3]
    tr,         \* the selector loaded by ltr (0 before)
    envs,       \* the environments: env_id, env_status, env_tf
    curenv,     \* the current environment, or NULL
    eflags,     \* the CPU's flags register
    cr2,        \* the CPU's fault-address register
    tf_stack,   \* the frame the entry stub pushed on the kernel stack
    tf,         \* trap's local pointer tf
    last_tf,    \* static struct Trapframe *last_tf
    trace,      \* console output and calls of the current trap, in order
    entry,      \* snapshot taken when trap was entered
    ntraps      \* traps taken so far

vars == << pc, gate_k, percpu_k, idt, idtr, ts, gdt_tss, tr, envs, curenv,
           eflags, cr2, tf_stack, tf, last_tf, trace, entry, ntraps >>

bootvars == << gate_k, percpu_k, idt, idtr, ts, gdt_tss, tr >>


(***************************************************************************)
(* Collaborators outside kern/trap.c.                                      *)
(***************************************************************************)
\* the frame env_alloc gives a new environment
InitialEnvFrame ==
    [ZeroFrame EXCEPT !.tf_ds = GD_UD + 3, !.tf_es = GD_UD + 3, !.tf_ss = GD_UD + 3,
                      !.tf_esp = UserEsp, !.tf_cs = GD_UT + 3, !.tf_eip = UserEip]

\* env_run(e): the running environment becomes runnable, e becomes current
EnvRun(es, cur, e) ==
    LET es1 == IF cur # NULL /\ es[cur].env_status = ENV_RUNNING
               THEN [es EXCEPT ![cur].env_status = ENV_RUNNABLE]
               ELSE es
    IN  [envs |-> [es1 EXCEPT ![e].env_status = ENV_RUNNING], curenv |-> e]

\* env_destroy(e): e is freed.  When e is the current environment the
\* primitive may leave curenv as it is, clear it, or make another runnable
\* environment the current, running one.
EnvDestroyOutcomes(es, cur, e) ==
    LET freed == [es EXCEPT ![e].env_status = ENV_FREE]
    IN  IF cur # e
        THEN {[envs |-> freed, curenv |-> cur]}
        ELSE {[envs |-> freed, curenv |-> e], [envs |-> freed, curenv |-> NULL]}
             \cup {[envs |-> [freed EXCEPT ![o].env_status = ENV_RUNNING], curenv |-> o] :
                     o \in {x \in Envs : freed[x].env_status = ENV_RUNNABLE}}

\* syscall(num, a1..a5): returns a value; sys_env_destroy destroys the caller
SyscallOutcomes(es, cur) ==
    {[ret |-> r, envs |-> es, curenv |-> cur] : r \in SyscallRets}
    \cup (IF cur = NULL THEN {}
          ELSE {[ret |-> 0, envs |-> o.envs, curenv |-> o.curenv] :
                  o \in EnvDestroyOutcomes(es, cur, cur)})

(***************************************************************************)
(* Helpers of the trap path.                                               *)
(***************************************************************************)
\* *p for a struct Trapframe *p
Deref(p) == IF p.kind = "env_tf" THEN envs[p.env].env_tf ELSE tf_stack

\* the assertion of trap with the test dropped
IntrDisabledAlways(fl) == TRUE

\* !(read_eflags() & FL_IF)
IntrDisabled(fl) == (fl \div FL_IF) % 2 = 0

\* trap comparing the whole selector with GD_UT, without the privilege bits
FromUserNoRpl(f) == f.tf_cs = GD_UT

\* trap copying the frame for every origin
FromUserAlways(f) == TRUE

\* (tf->tf_cs & 3) == 3 in trap
FromUser(f) == f.tf_cs % 4 = 3

\* the unexpected-trap policy destroying the environment for every origin
KernelCSNever(f) == FALSE

\* tf->tf_cs == GD_KT in trap_dispatch
KernelCS(f) == f.tf_cs = GD_KT

\* page_fault_handler with the kernel test dropped
PgfltKernelNever(f) == FALSE

\* page_fault_handler with its test inverted
PgfltKernelTestsRpl3(f) == f.tf_cs % 4 = 3

\* (tf->tf_cs & 0x3) == 0 in page_fault_handler
PgfltKernel(f) == f.tf_cs % 4 = 0

\* (tf->tf_cs & 3) != 0 in print_trapframe
PrintsStack(f) == f.tf_cs % 4 # 0

\* the struct assignment losing the saved stack pointer
CopyFrameDropsEsp(f) == [f EXCEPT !.tf_esp = 0]

\* curenv->env_tf = *tf
CopyFrame(f) == f

\* the result stored as its magnitude
ToUint32Magnitude(x) == IF x < 0 THEN 0 - x ELSE x

\* the int32_t result stored into the uint32_t reg_eax
ToUint32(x) == x % WordMod

\* the bridge passing ecx as a1 and edx as a2
SyscallArgsSwapped(r) ==
    << r.reg_eax, r.reg_ecx, r.reg_edx, r.reg_ebx, r.reg_edi, r.reg_esi >>

\* num, a1..a5 of syscall_handler
SyscallArgs(r) ==
    << r.reg_eax, r.reg_edx, r.reg_ecx, r.reg_ebx, r.reg_edi, r.reg_esi >>

\* the switch entering the debugger for the debug exception too
DispatchTargetDebugMonitor(trapno) ==
    CASE trapno \in {T_BRKPT, T_DEBUG} -> "monitor"
      [] trapno = T_PGFLT -> "page_fault_handler"
      [] trapno = T_SYSCALL -> "syscall_handler"
      [] OTHER -> "unexpected"

\* the switch sending a page fault through the dispatcher again
DispatchTargetRetry(trapno) ==
    CASE trapno = T_BRKPT -> "monitor"
      [] trapno = T_PGFLT -> "trap_dispatch"
      [] trapno = T_SYSCALL -> "syscall_handler"
      [] OTHER -> "unexpected"

\* the switch of trap_dispatch
DispatchTarget(trapno) ==
    CASE trapno = T_BRKPT -> "monitor"
      [] trapno = T_PGFLT -> "page_fault_handler"
      [] trapno = T_SYSCALL -> "syscall_handler"
      [] OTHER -> "unexpected"

\* what print_trapframe(p) prints
PrintTrapframe(p) ==
    LET f == Deref(p)
    IN  [ev |-> "print_trapframe", at |-> p, frame |-> f,
         name |-> trapname(f.tf_trapno),
         cr2 |-> IF p = last_tf /\ f.tf_trapno = T_PGFLT THEN << cr2 >> ELSE << >>,
         stack |-> PrintsStack(f)]

\* page_fault_handler destroying the environment before it logs the fault
PageFaultUserPathDestroyFirst(p, fault_va) ==
    << [ev |-> "env_destroy", env |-> curenv],
       [ev |-> "user fault", env_id |-> envs[curenv].env_id,
        va |-> fault_va, ip |-> Deref(p).tf_eip],
       PrintTrapframe(p) >>

\* cprintf("[%08x] user fault va %08x ip %08x\n", ...); print_trapframe(tf);
\* env_destroy(curenv)
PageFaultUserPath(p, fault_va) ==
    << [ev |-> "user fault", env_id |-> envs[curenv].env_id,
        va |-> fault_va, ip |-> Deref(p).tf_eip],
       PrintTrapframe(p),
       [ev |-> "env_destroy", env |-> curenv] >>

\* the assertion of trap's return path without the status test
CurenvRunningStatusUnchecked(es, cur) == cur # NULL

\* curenv && curenv->env_status == ENV_RUNNING
CurenvRunning(es, cur) == cur # NULL /\ es[cur].env_status = ENV_RUNNING

Panic(msg) == [ev |-> "panic", msg |-> msg]
AssertFailed(cond) == [ev |-> "assert", cond |-> cond]

(***************************************************************************)
(* Initial state: the kernel enters trap_init; idt, ts and last_tf are     *)
(* zero-initialised statics, no environment exists yet.                    *)
(***************************************************************************)
Init ==
    /\ pc = "trap_init"
    /\ gate_k = 1
    /\ percpu_k = 1
    /\ idt = [v \in 0..(NIDT - 1) |-> ZeroGate]
    /\ idtr = "none"
    /\ ts = [ts_esp0 |-> "0", ts_ss0 |-> 0]
    /\ gdt_tss = ZeroSeg
    /\ tr = [sel |-> 0, desc |-> ZeroSeg]
    /\ envs = [e \in Envs |-> [env_id |-> 4096 + e, env_status |-> ENV_FREE,
                               env_tf |-> ZeroFrame]]
    /\ curenv = NULL
    /\ eflags = 2
    /\ cr2 = 0
    /\ tf_stack = ZeroFrame
    /\ tf = NullPtr
    /\ last_tf = NullPtr
    /\ trace = << >>
    /\ entry = [frame |-> ZeroFrame, curenv |-> NULL, last_tf |-> NullPtr]
    /\ ntraps = 0

trapvars == << envs, curenv, eflags, cr2, tf_stack, tf, last_tf, trace, entry, ntraps >>

(***************************************************************************)
(* Boot: trap_init, then trap_init_percpu.                                 *)
(***************************************************************************)
\* one SETGATE statement of trap_init
SetGate ==
    /\ pc = "trap_init"
    /\ gate_k <= Len(TrapInitGates)
    /\ idt' = [idt EXCEPT ![TrapInitGates[gate_k].vec] = TrapInitGates[gate_k].gate]
    /\ gate_k' = gate_k + 1
    /\ UNCHANGED << pc, percpu_k, idtr, ts, gdt_tss, tr >>
    /\ UNCHANGED trapvars

\* trap_init calls trap_init_percpu after its last SETGATE
CallPercpu ==
    /\ pc = "trap_init"
    /\ gate_k > Len(TrapInitGates)
    /\ pc' = "trap_init_percpu"
    /\ UNCHANGED bootvars
    /\ UNCHANGED trapvars

PercpuAt(step) ==
    /\ pc = "trap_init_percpu"
    /\ percpu_k <= Len(PercpuSteps)
    /\ PercpuSteps[percpu_k] = step
    /\ percpu_k' = percpu_k + 1
    /\ UNCHANGED << pc, gate_k >>
    /\ UNCHANGED trapvars

\* ts.ts_esp0 = KSTACKTOP
PercpuEsp0 ==
    /\ PercpuAt("ts_esp0")
    /\ ts' = [ts EXCEPT !.ts_esp0 = KSTACKTOP]
    /\ UNCHANGED << idt, idtr, gdt_tss, tr >>

\* ts.ts_ss0 = GD_KD
PercpuSs0 ==
    /\ PercpuAt("ts_ss0")
    /\ ts' = [ts EXCEPT !.ts_ss0 = GD_KD]
    /\ UNCHANGED << idt, idtr, gdt_tss, tr >>

\* gdt[GD_TSS0 >> 3] = SEG16(STS_T32A, &ts, sizeof(struct Taskstate) - 1, 0)
PercpuGdt ==
    /\ PercpuAt("gdt_tss")
    /\ gdt_tss' = SEG16(STS_T32A, "&ts", 0)
    /\ UNCHANGED << idt, idtr, ts, tr >>

\* gdt[GD_TSS0 >> 3].sd_s = 0
PercpuSdS ==
    /\ PercpuAt("gdt_sd_s")
    /\ gdt_tss' = [gdt_tss EXCEPT !.sd_s = 0]
    /\ UNCHANGED << idt, idtr, ts, tr >>

\* ltr(GD_TSS0): the CPU reads the descriptor the selector names
PercpuLtr ==
    /\ PercpuAt("ltr")
    /\ tr' = [sel |-> GD_TSS0, desc |-> gdt_tss]
    /\ UNCHANGED << idt, idtr, ts, gdt_tss >>

\* lidt(&idt_pd)
PercpuLidt ==
    /\ PercpuAt("lidt")
    /\ idtr' = "idt"
    /\ UNCHANGED << idt, ts, gdt_tss, tr >>

\* trap_init_percpu and trap_init return to the kernel's initialisation
BootDone ==
    /\ pc = "trap_init_percpu"
    /\ percpu_k > Len(PercpuSteps)
    /\ pc' = "kernel"
    /\ UNCHANGED bootvars
    /\ UNCHANGED trapvars

(***************************************************************************)
(* The kernel outside trap handling: environments are created and run.     *)
(***************************************************************************)
\* env_create during initialisation: env_alloc takes the first free slot
KernelEnvCreate ==
    /\ pc = "kernel"
    /\ \E e \in Envs :
         /\ envs[e].env_status = ENV_FREE
         /\ \A d \in Envs : d < e => envs[d].env_status # ENV_FREE
         /\ envs' = [envs EXCEPT ![e].env_status = ENV_RUNNABLE,
                                 ![e].env_tf = InitialEnvFrame]
    /\ UNCHANGED << pc, curenv, eflags, cr2, tf_stack, tf, last_tf, trace, entry, ntraps >>
    /\ UNCHANGED bootvars

\* env_run(e) called by the kernel's initialisation
KernelEnvRun ==
    /\ pc = "kernel"
    /\ \E e \in Envs :
         /\ envs[e].env_status = ENV_RUNNABLE
         /\ envs' = EnvRun(envs, curenv, e).envs
         /\ curenv' = EnvRun(envs, curenv, e).curenv
    /\ pc' = "env_run"
    /\ UNCHANGED << eflags, cr2, tf_stack, tf, last_tf, trace, entry, ntraps >>
    /\ UNCHANGED bootvars

\* env_run ends in env_pop_tf: the kernel's frame of trap is gone, iret
\* restores the flags saved in env_tf and the environment executes
EnvPopTf ==
    /\ pc = "env_run"
    /\ pc' = "user"
    /\ eflags' = envs[curenv].env_tf.tf_eflags
    /\ tf' = NullPtr
    /\ trace' = << >>
    /\ entry' = [frame |-> ZeroFrame, curenv |-> NULL, last_tf |-> NullPtr]
    /\ UNCHANGED << envs, curenv, cr2, tf_stack, last_tf, ntraps >>
    /\ UNCHANGED bootvars

(***************************************************************************)
(* The CPU vectors a trap through the loaded table to an entry stub, which *)
(* builds the frame on the kernel stack and calls trap(tf).                *)
(***************************************************************************)
TrapEntry ==
    /\ pc \in {"kernel", "env_run", "user"}
    /\ ntraps < MaxTraps
    /\ idtr = "idt"
    /\ \E f \in (IF pc = "user" THEN UserFrames ELSE KernelFrames),
          fl \in EflagsVals, va \in CR2Vals :
         /\ \E vec \in DOMAIN idt : idt[vec].gd_p = 1 /\ idt[vec].gd_off = f.tf_trapno
         /\ f.tf_trapno = T_PGFLT \/ va = cr2
         /\ tf_stack' = f
         /\ eflags' = fl
         /\ cr2' = va
         /\ entry' = [frame |-> f, curenv |-> curenv, last_tf |-> last_tf]
    /\ tf' = StackPtr
    /\ trace' = << >>
    /\ ntraps' = ntraps + 1
    /\ pc' = "trap"
    /\ UNCHANGED << envs, curenv, last_tf >>
    /\ UNCHANGED bootvars

(***************************************************************************)
(* trap(tf)                                                                *)
(***************************************************************************)
\* assert(!(read_eflags() & FL_IF)); cprintf("Incoming TRAP frame at %p\n", tf)
TrapCheckIF ==
    /\ pc = "trap"
    /\ IF IntrDisabled(eflags)
       THEN /\ trace' = Append(trace, [ev |-> "incoming", at |-> tf])
            /\ pc' = "trap_copy"
       ELSE /\ trace' = Append(trace, AssertFailed("!(read_eflags() & FL_IF)"))
            /\ pc' = "assert"
    /\ UNCHANGED << envs, curenv, eflags, cr2, tf_stack, tf, last_tf, entry, ntraps >>
    /\ UNCHANGED bootvars

\* if ((tf->tf_cs & 3) == 3) { assert(curenv); curenv->env_tf = *tf;
\* tf = &curenv->env_tf; }  last_tf = tf;
TrapSaveFrame ==
    /\ pc = "trap_copy"
    /\ IF FromUser(Deref(tf))
       THEN IF curenv = NULL
            THEN /\ trace' = Append(trace, AssertFailed("curenv"))
                 /\ pc' = "assert"
                 /\ UNCHANGED << envs, tf, last_tf >>
            ELSE /\ envs' = [envs EXCEPT ![curenv].env_tf = CopyFrame(Deref(tf))]
                 /\ tf' = EnvTfPtr(curenv)
                 /\ last_tf' = EnvTfPtr(curenv)
                 /\ pc' = "trap_dispatch"
                 /\ UNCHANGED trace
       ELSE /\ last_tf' = tf
            /\ pc' = "trap_dispatch"
            /\ UNCHANGED << envs, tf, trace >>
    /\ UNCHANGED << curenv, eflags, cr2, tf_stack, entry, ntraps >>
    /\ UNCHANGED bootvars

(***************************************************************************)
(* trap_dispatch(tf) and the handlers it routes to                         *)
(***************************************************************************)
\* trap_dispatch clearing the kernel stack pointer of the task state
TrapDispatchResetsEsp0 ==
    /\ pc = "trap_dispatch"
    /\ pc' = DispatchTarget(Deref(tf).tf_trapno)
    /\ ts' = [ts EXCEPT !.ts_esp0 = "0"]
    /\ UNCHANGED trapvars
    /\ UNCHANGED << gate_k, percpu_k, idt, idtr, gdt_tss, tr >>

\* switch (tf->tf_trapno)
TrapDispatch ==
    /\ pc = "trap_dispatch"
    /\ pc' = DispatchTarget(Deref(tf).tf_trapno)
    /\ UNCHANGED trapvars
    /\ UNCHANGED bootvars

\* case T_BRKPT: monitor(tf); return
Monitor ==
    /\ pc = "monitor"
    /\ trace' = Append(trace, [ev |-> "monitor", at |-> tf])
    /\ pc' = "trap_ret"
    /\ UNCHANGED << envs, curenv, eflags, cr2, tf_stack, tf, last_tf, entry, ntraps >>
    /\ UNCHANGED bootvars

\* syscall_handler(tf)
SyscallHandler ==
    /\ pc = "syscall_handler"
    /\ \E o \in SyscallOutcomes(envs, curenv) :
         /\ trace' = Append(trace, [ev |-> "syscall",
                                    args |-> SyscallArgs(Deref(tf).tf_regs),
                                    ret |-> o.ret])
         /\ curenv' = o.curenv
         /\ IF tf.kind = "env_tf"
            THEN /\ envs' = [o.envs EXCEPT
                               ![tf.env].env_tf.tf_regs.reg_eax = ToUint32(o.ret)]
                 /\ UNCHANGED tf_stack
            ELSE /\ envs' = o.envs
                 /\ tf_stack' = [tf_stack EXCEPT !.tf_regs.reg_eax = ToUint32(o.ret)]
    /\ pc' = "trap_ret"
    /\ UNCHANGED << eflags, cr2, tf, last_tf, entry, ntraps >>
    /\ UNCHANGED bootvars

\* page_fault_handler(tf)
PageFaultHandler ==
    /\ pc = "page_fault_handler"
    /\ LET fault_va == cr2
           f == Deref(tf)
       IN  IF PgfltKernel(f)
           THEN /\ trace' = Append(trace, Panic("Kernel page fault"))
                /\ pc' = "panic"
                /\ UNCHANGED << envs, curenv >>
           ELSE IF curenv = NULL
           THEN /\ trace' = Append(trace, [ev |-> "undefined", what |-> "curenv->env_id"])
                /\ pc' = "undefined"
                /\ UNCHANGED << envs, curenv >>
           ELSE \E o \in EnvDestroyOutcomes(envs, curenv, curenv) :
                  /\ trace' = trace \o PageFaultUserPath(tf, fault_va)
                  /\ envs' = o.envs
                  /\ curenv' = o.curenv
                  /\ pc' = "trap_ret"
    /\ UNCHANGED << eflags, cr2, tf_stack, tf, last_tf, entry, ntraps >>
    /\ UNCHANGED bootvars

\* the unexpected-trap policy at the end of trap_dispatch
UnexpectedTrap ==
    /\ pc = "unexpected"
    /\ IF KernelCS(Deref(tf))
       THEN /\ trace' = trace \o << PrintTrapframe(tf), Panic("unhandled trap in kernel") >>
            /\ pc' = "panic"
            /\ UNCHANGED << envs, curenv >>
       ELSE IF curenv = NULL
       THEN /\ trace' = trace \o << PrintTrapframe(tf),
                                    [ev |-> "undefined", what |-> "env_destroy(NULL)"] >>
            /\ pc' = "undefined"
            /\ UNCHANGED << envs, curenv >>
       ELSE \E o \in EnvDestroyOutcomes(envs, curenv, curenv) :
              /\ trace' = trace \o << PrintTrapframe(tf),
                                      [ev |-> "env_destroy", env |-> curenv] >>
              /\ envs' = o.envs
              /\ curenv' = o.curenv
              /\ pc' = "trap_ret"
    /\ UNCHANGED << eflags, cr2, tf_stack, tf, last_tf, entry, ntraps >>
    /\ UNCHANGED bootvars

\* assert(curenv && curenv->env_status == ENV_RUNNING); env_run(curenv)
TrapReturn ==
    /\ pc = "trap_ret"
    /\ IF CurenvRunning(envs, curenv)
       THEN /\ trace' = Append(trace, [ev |-> "env_run", env |-> curenv,
                                       frame |-> envs[curenv].env_tf])
            /\ envs' = EnvRun(envs, curenv, curenv).envs
            /\ curenv' = EnvRun(envs, curenv, curenv).curenv
            /\ pc' = "env_run"
       ELSE /\ trace' = Append(trace,
                   AssertFailed("curenv && curenv->env_status == ENV_RUNNING"))
            /\ pc' = "assert"
            /\ UNCHANGED << envs, curenv >>
    /\ UNCHANGED << eflags, cr2, tf_stack, tf, last_tf, entry, ntraps >>
    /\ UNCHANGED bootvars

Next ==
    \/ SetGate
    \/ CallPercpu
    \/ PercpuEsp0
    \/ PercpuSs0
    \/ PercpuGdt
    \/ PercpuSdS
    \/ PercpuLtr
    \/ PercpuLidt
    \/ BootDone
    \/ KernelEnvCreate
    \/ KernelEnvRun
    \/ EnvPopTf
    \/ TrapEntry
    \/ TrapCheckIF
    \/ TrapSaveFrame
    \/ TrapDispatch
    \/ Monitor
    \/ SyscallHandler
    \/ PageFaultHandler
    \/ UnexpectedTrap
    \/ TrapReturn

Spec == Init /\ [][Next]_vars

(***************************************************************************)
(* The pure functions of kern/trap.c applied to arbitrary arguments:       *)
(* trapname to an int and the four origin tests to a saved code segment.   *)
(* The arguments are the first entry of the trace, each result is appended *)
(* to it.                                                                  *)
(***************************************************************************)
TrapnoVals == (0 - MaxNeg)..MaxTrapno
CsVals == 0..MaxCs

FnInit ==
    /\ pc = "fn_trapname"
    /\ \E n \in TrapnoVals, c \in CsVals :
         trace = << [ev |-> "input", trapno |-> n, cs |-> c] >>
    /\ gate_k = 1
    /\ percpu_k = 1
    /\ idt = [v \in 0..(NIDT - 1) |-> ZeroGate]
    /\ idtr = "none"
    /\ ts = [ts_esp0 |-> "0", ts_ss0 |-> 0]
    /\ gdt_tss = ZeroSeg
    /\ tr = [sel |-> 0, desc |-> ZeroSeg]
    /\ envs = [e \in Envs |-> [env_id |-> 4096 + e, env_status |-> ENV_FREE,
                               env_tf |-> ZeroFrame]]
    /\ curenv = NULL
    /\ eflags = 2
    /\ cr2 = 0
    /\ tf_stack = ZeroFrame
    /\ tf = NullPtr
    /\ last_tf = NullPtr
    /\ entry = [frame |-> ZeroFrame, curenv |-> NULL, last_tf |-> NullPtr]
    /\ ntraps = 0

\* trapname(trapno)
FnTrapname ==
    /\ pc = "fn_trapname"
    /\ trace' = Append(trace, [ev |-> "trapname", name |-> trapname(trace[1].trapno)])
    /\ pc' = "fn_origin"
    /\ UNCHANGED << envs, curenv, eflags, cr2, tf_stack, tf, last_tf, entry, ntraps >>
    /\ UNCHANGED bootvars

\* the tests of tf_cs in trap, trap_dispatch, page_fault_handler and
\* print_trapframe
FnOrigin ==
    /\ pc = "fn_origin"
    /\ LET f == [ZeroFrame EXCEPT !.tf_cs = trace[1].cs]
       IN  trace' = Append(trace, [ev |-> "origin",
                                   trap_user |-> FromUser(f),
                                   dispatch_kernel |-> KernelCS(f),
                                   pgflt_kernel |-> PgfltKernel(f),
                                   print_user |-> PrintsStack(f)])
    /\ pc' = "fn_done"
    /\ UNCHANGED << envs, curenv, eflags, cr2, tf_stack, tf, last_tf, entry, ntraps >>
    /\ UNCHANGED bootvars

FnNext ==
    \/ FnTrapname
    \/ FnOrigin

FnSpec == FnInit /\ [][FnNext]_vars

(***************************************************************************)
(* Vocabulary of the properties.                                           *)
(***************************************************************************)
\* the vectors trap_init names
NamedVectors ==
    {T_DIVIDE, T_DEBUG, T_NMI, T_BRKPT, T_OFLOW, T_BOUND, T_ILLOP, T_DEVICE,
     T_DBLFLT, T_TSS, T_SEGNP, T_STACK, T_GPFLT, T_PGFLT, T_FPERR, T_ALIGN,
     T_MCHK, T_SIMDERR, T_SYSCALL}

\* positions of trap, trap_dispatch and the handlers
HandlingPcs ==
    {"trap_copy", "trap_dispatch", "monitor", "syscall_handler",
     "page_fault_handler", "unexpected", "trap_ret"}

\* trap passed its first assertion for the frame recorded in entry
Accepted == Len(trace) > 0 /\ trace[1].ev = "incoming"

\* trap has reached one of its ends
Finished == Accepted /\ pc \in {"panic", "assert", "undefined", "env_run"}

HasEv(name) == \E i \in DOMAIN trace : trace[i].ev = name

Unnamed(trapno) == trapno \notin {T_BRKPT, T_PGFLT, T_SYSCALL}

\* the frame was printed by print_trapframe before position j of the trace
PrintedBefore(j) ==
    \E i \in 1..(j - 1) :
       /\ trace[i].ev = "print_trapframe"
       /\ trace[i].frame.tf_trapno = entry.frame.tf_trapno
       /\ trace[i].frame.tf_eip = entry.frame.tf_eip

(***************************************************************************)
(* C1: once trap_init has executed its SETGATE statements, each of the 19  *)
(* named vectors has a present gate pointing at its own stub trap_N with   *)
(* the kernel code selector, no other slot points at that stub, the        *)
(* breakpoint and syscall gates have privilege level 3 and every other     *)
(* installed gate has privilege level 0.                                   *)
(***************************************************************************)
C1_GatesInstalled ==
    pc # "trap_init" =>
      /\ \A v \in NamedVectors :
           /\ idt[v].gd_p = 1
           /\ idt[v].gd_off = v
           /\ idt[v].gd_sel = GD_KT
           /\ Cardinality({w \in DOMAIN idt : idt[w].gd_p = 1 /\ idt[w].gd_off = v}) = 1
      /\ \A w \in DOMAIN idt :
           idt[w].gd_p = 1 =>
             idt[w].gd_dpl = (IF w \in {T_BRKPT, T_SYSCALL} THEN 3 ELSE 0)

C1_Witness ==
    /\ pc = "kernel"
    /\ idt[T_SYSCALL].gd_dpl = 3
    /\ idt[T_BRKPT].gd_dpl = 3
    /\ idt[T_PGFLT].gd_p = 1

(***************************************************************************)
(* C2: when syscall_handler returns, the syscall implementation was called *)
(* with (eax, edx, ecx, ebx, edi, esi) of the frame, and the frame differs *)
(* from the frame before the call in the eax slot only, which holds the    *)
(* returned value (as the unsigned word of the same bits).                 *)
(***************************************************************************)
C2_SyscallBridge ==
    (pc = "trap_ret" /\ trace[Len(trace)].ev = "syscall") =>
      LET call == trace[Len(trace)]
          r == entry.frame.tf_regs
      IN  /\ call.args = << r.reg_eax, r.reg_edx, r.reg_ecx, r.reg_ebx,
                            r.reg_edi, r.reg_esi >>
          /\ Deref(tf) = [entry.frame EXCEPT !.tf_regs.reg_eax = call.ret % WordMod]

C2_Witness ==
    /\ pc = "trap_ret"
    /\ trace[Len(trace)].ev = "syscall"
    /\ trace[Len(trace)].args = << 5, 10, 20, 0, 0, 0 >>
    /\ trace[Len(trace)].ret = 30
    /\ Deref(tf).tf_regs.reg_eax = 30
    /\ entry.frame.tf_regs.reg_eax = 5

(***************************************************************************)
(* C3: for a user-origin trap, when trap_dispatch is invoked and while a   *)
(* handler is entered, curenv->env_tf equals the frame passed to trap in   *)
(* every field and tf points at that persistent copy.                      *)
(***************************************************************************)
C3_PersistentCopy ==
    (pc \in {"trap_dispatch", "monitor", "syscall_handler", "page_fault_handler",
             "unexpected"}
     /\ entry.frame.tf_cs % 4 = 3) =>
      /\ curenv # NULL
      /\ envs[curenv].env_tf = entry.frame
      /\ tf_stack = entry.frame
      /\ tf = EnvTfPtr(curenv)

C3_Witness ==
    /\ pc = "trap_dispatch"
    /\ entry.frame.tf_cs % 4 = 3
    /\ tf = EnvTfPtr(curenv)
    /\ envs[curenv].env_tf.tf_esp = UserEsp
    /\ envs[curenv].env_tf.tf_regs.reg_eax = 8

(***************************************************************************)
(* C4: a trap whose number is not breakpoint, page fault or syscall and    *)
(* whose saved code segment is the kernel's, once accepted by trap, is     *)
(* only ever in trap, the dispatcher or the panic "unhandled trap in       *)
(* kernel": env_destroy and env_run are never reached.                     *)
(***************************************************************************)
C4_KernelUnexpectedPanics ==
    (Accepted /\ Unnamed(entry.frame.tf_trapno) /\ entry.frame.tf_cs = GD_KT) =>
      /\ pc \in {"trap_copy", "trap_dispatch", "unexpected", "panic"}
      /\ ~HasEv("env_destroy")
      /\ ~HasEv("env_run")
      /\ pc = "panic" => trace[Len(trace)] = Panic("unhandled trap in kernel")
      /\ \A e \in Envs : e = curenv => envs[e].env_status = ENV_RUNNING

C4_Witness ==
    /\ pc = "panic"
    /\ Accepted
    /\ entry.frame.tf_trapno = T_GPFLT
    /\ entry.frame.tf_cs = GD_KT
    /\ curenv # NULL
    /\ trace[Len(trace)] = Panic("unhandled trap in kernel")

C6_KernelPageFaultPanics ==
    (Accepted /\ entry.frame.tf_trapno = T_PGFLT /\ entry.frame.tf_cs % 4 = 0) =>
      /\ pc \in {"trap_copy", "trap_dispatch", "page_fault_handler", "panic"}
      /\ ~HasEv("env_destroy")
      /\ pc = "panic" => trace[Len(trace)] = Panic("Kernel page fault")

C6_Witness ==
    /\ pc = "panic"
    /\ Accepted
    /\ entry.frame.tf_trapno = T_PGFLT
    /\ entry.frame.tf_cs % 4 = 0
    /\ curenv # NULL
    /\ trace[Len(trace)] = Panic("Kernel page fault")

(***************************************************************************)
(* C7: for a user-privilege page fault, page_fault_handler logs the id of  *)
(* the current environment, the address in cr2 and the frame's saved       *)
(* instruction pointer, and only then destroys the current environment;    *)
(* nothing is destroyed before the log line, and the faulting environment  *)
(* is never resumed.                                                       *)
(***************************************************************************)
C7_UserPageFaultLogged ==
    (Accepted /\ entry.frame.tf_trapno = T_PGFLT /\ entry.frame.tf_cs % 4 # 0) =>
      /\ pc \in {"trap_copy", "trap_dispatch", "page_fault_handler", "trap_ret",
                 "assert", "env_run"}
      /\ pc \in {"trap_copy", "trap_dispatch", "page_fault_handler"} =>
           ~HasEv("env_destroy")
      /\ pc \in {"trap_ret", "assert", "env_run"} =>
           \E i, j \in DOMAIN trace :
              /\ i < j
              /\ trace[i] = [ev |-> "user fault",
                             env_id |-> envs[entry.curenv].env_id,
                             va |-> cr2, ip |-> entry.frame.tf_eip]
              /\ trace[j] = [ev |-> "env_destroy", env |-> entry.curenv]
              /\ \A k \in 1..(j - 1) : trace[k].ev # "env_destroy"
      /\ pc = "env_run" => curenv # entry.curenv

C7_Witness ==
    /\ pc = "trap_ret"
    /\ entry.frame.tf_trapno = T_PGFLT
    /\ entry.frame.tf_cs % 4 = 3
    /\ cr2 = 514703087
    /\ trace[2] = [ev |-> "user fault", env_id |-> 4097, va |-> 514703087,
                   ip |-> UserEip]
    /\ trace[4] = [ev |-> "env_destroy", env |-> 1]

(***************************************************************************)
(* C8: wherever trap handling panics or destroys an environment, the       *)
(* frame has been printed by print_trapframe before.                       *)
(***************************************************************************)
C8_PrintBeforeFatal ==
    \A j \in DOMAIN trace :
       trace[j].ev \in {"panic", "env_destroy"} => PrintedBefore(j)

(***************************************************************************)
(* C9: the table is loaded by lidt only when every named gate is written,  *)
(* the task register is loaded by ltr only when ts and its descriptor are  *)
(* written, no gate is written once the table is loaded, and trap is only  *)
(* entered with the table loaded.                                          *)
(***************************************************************************)
C9_BootOrder ==
    /\ [](idtr = "idt" =>
            \A v \in NamedVectors : idt[v].gd_p = 1 /\ idt[v].gd_off = v)
    /\ [](tr.sel # 0 =>
            /\ tr.sel = GD_TSS0
            /\ ts = [ts_esp0 |-> KSTACKTOP, ts_ss0 |-> GD_KD]
            /\ tr.desc = [sd_type |-> STS_T32A, sd_base |-> "&ts", sd_s |-> 0,
                          sd_dpl |-> 0, sd_p |-> 1]
            /\ gdt_tss = tr.desc)
    /\ [](ntraps > 0 => idtr = "idt" /\ tr.sel = GD_TSS0)
    /\ [][(idtr = "idt") => (idt' = idt /\ idtr' = idtr)]_vars

C9_Witness ==
    /\ pc = "trap"
    /\ idtr = "idt"
    /\ tr.sel = GD_TSS0
    /\ tr.desc.sd_s = 0

(***************************************************************************)
(* C10: a trap entered with the interrupt-enable flag set stops in the     *)
(* assertion failure with the frame not copied, last_tf not updated and    *)
(* the dispatcher not run; no step of trap handling changes the flag, and  *)
(* the flag is clear wherever trap, the dispatcher or a handler runs past  *)
(* the assertion.                                                          *)
(***************************************************************************)
C10_InterruptsDisabled ==
    /\ [](pc \in HandlingPcs => (eflags \div FL_IF) % 2 = 0)
    /\ []((pc = "assert" /\ ~Accepted) =>
            /\ tf = StackPtr
            /\ last_tf = entry.last_tf
            /\ trace = << AssertFailed("!(read_eflags() & FL_IF)") >>)
    /\ [][(pc = "trap" /\ (eflags \div FL_IF) % 2 = 1) =>
            (pc' = "assert" /\ envs' = envs /\ curenv' = curenv /\ last_tf' = last_tf)]_vars
    /\ [][(pc = "assert") => (pc' = "assert")]_vars
    /\ [][(pc \in (HandlingPcs \cup {"trap"})) => (eflags' = eflags)]_vars

C10_Witness ==
    /\ pc = "assert"
    /\ (eflags \div FL_IF) % 2 = 1
    /\ entry.frame.tf_cs % 4 = 3
    /\ trace = << AssertFailed("!(read_eflags() & FL_IF)") >>
    /\ envs[curenv].env_tf # tf_stack

(***************************************************************************)
(* C11: the switch of trap_dispatch maps every trap number to exactly one  *)
(* of monitor, page_fault_handler, syscall_handler and the unexpected-trap *)
(* policy: monitor for breakpoint only, page_fault_handler for page fault  *)
(* only, syscall_handler for the syscall vector only; in a trap exactly    *)
(* one of the four runs, and for the three named vectors trap_dispatch     *)
(* itself prints no frame and destroys no environment.                     *)
(***************************************************************************)
\* the handlers whose output the trace of the current trap holds
HandlersRun ==
    {h \in {"monitor", "page_fault_handler", "syscall_handler", "unexpected"} :
       \E i \in DOMAIN trace :
          \/ h = "monitor" /\ trace[i].ev = "monitor"
          \/ h = "syscall_handler" /\ trace[i].ev = "syscall"
          \/ h = "page_fault_handler"
               /\ (trace[i].ev = "user fault" \/ trace[i] = Panic("Kernel page fault"))
          \/ h = "unexpected"
               /\ trace[i].ev = "print_trapframe" /\ trace[i - 1].ev # "user fault"}

C11_DispatchTotal ==
    /\ \A k \in 0..(NIDT - 1) :
         DispatchTarget(k) =
           (IF k = T_BRKPT THEN "monitor"
            ELSE IF k = T_PGFLT THEN "page_fault_handler"
            ELSE IF k = T_SYSCALL THEN "syscall_handler"
            ELSE "unexpected")
    /\ Accepted =>
         LET n == entry.frame.tf_trapno
         IN  /\ pc = "monitor" => n = T_BRKPT
             /\ pc = "page_fault_handler" => n = T_PGFLT
             /\ pc = "syscall_handler" => n = T_SYSCALL
             /\ pc = "unexpected" => Unnamed(n)
             /\ HandlersRun \subseteq {DispatchTarget(n)}
             /\ pc \in {"trap_ret", "panic", "env_run"} =>
                  HandlersRun = {DispatchTarget(n)}
             /\ n \in {T_BRKPT, T_SYSCALL} =>
                  ~HasEv("print_trapframe") /\ ~HasEv("env_destroy") /\ ~HasEv("panic")

C11_Witness ==
    /\ pc = "trap_ret"
    /\ entry.frame.tf_trapno = T_BRKPT
    /\ HandlersRun = {"monitor"}
    /\ trace[Len(trace)] = [ev |-> "monitor", at |-> tf]

(***************************************************************************)
(* C12: the return path of trap calls env_run only when curenv is not NULL *)
(* and its status is ENV_RUNNING, and then for curenv; in every other case *)
(* it stops in the assertion failure and env_run is not called.            *)
(***************************************************************************)
C12_ResumeOnlyRunning ==
    /\ []((Accepted /\ pc = "env_run") =>
            /\ curenv # NULL
            /\ envs[curenv].env_status = ENV_RUNNING
            /\ trace[Len(trace)].ev = "env_run"
            /\ trace[Len(trace)].env = curenv)
    /\ []((Accepted /\ pc # "env_run") => ~HasEv("env_run"))
    /\ [][(pc = "trap_ret") =>
            (IF curenv # NULL /\ envs[curenv].env_status = ENV_RUNNING
             THEN pc' = "env_run" /\ curenv' = curenv
             ELSE /\ pc' = "assert"
                  /\ trace' = Append(trace,
                        AssertFailed("curenv && curenv->env_status == ENV_RUNNING"))
                  /\ envs' = envs /\ curenv' = curenv)]_vars

C12_Witness ==
    /\ pc = "assert"
    /\ curenv = NULL
    /\ HasEv("env_destroy")
    /\ ~HasEv("env_run")
    /\ trace[Len(trace)] = AssertFailed("curenv && curenv->env_status == ENV_RUNNING")

(***************************************************************************)
(* C13: trap does not return: from every position of trap, the dispatcher  *)
(* and the handlers a step is possible, every step moves strictly closer   *)
(* to an end, and the only ends are env_run, panic and a failed assertion, *)
(* of which exactly one is reached; a panic or failed assertion is final.  *)
(***************************************************************************)
\* one step of trap, trap_dispatch or a handler
TrapStep ==
    \/ TrapCheckIF
    \/ TrapSaveFrame
    \/ TrapDispatch
    \/ Monitor
    \/ SyscallHandler
    \/ PageFaultHandler
    \/ UnexpectedTrap
    \/ TrapReturn

\* statements left before trap ends, at most
Distance(p) ==
    CASE p = "trap" -> 5
      [] p = "trap_copy" -> 4
      [] p = "trap_dispatch" -> 3
      [] p \in {"monitor", "syscall_handler", "page_fault_handler", "unexpected"} -> 2
      [] p = "trap_ret" -> 1
      [] p \in {"env_run", "panic", "assert"} -> 0
      [] OTHER -> 9

\* the ends of trap recorded in the trace
EndsReached == {i \in DOMAIN trace : trace[i].ev \in {"env_run", "panic", "assert"}}

C13_TrapNeverReturns ==
    /\ [](pc # "undefined")
    /\ [](pc \in (HandlingPcs \cup {"trap"}) =>
            (EndsReached = {} /\ ENABLED << TrapStep >>_vars))
    /\ [](pc \in {"panic", "assert"} =>
            (EndsReached = {Len(trace)} /\ trace[Len(trace)].ev = pc))
    /\ []((pc = "env_run" /\ ntraps > 0 /\ trace # << >>) =>
            (EndsReached = {Len(trace)} /\ trace[Len(trace)].ev = pc))
    /\ [][(pc \in (HandlingPcs \cup {"trap"})) => (Distance(pc') < Distance(pc))]_vars
    /\ [][pc \notin {"panic", "assert"}]_vars

C13_Witness ==
    /\ pc = "assert"
    /\ entry.frame.tf_trapno = T_BRKPT
    /\ entry.frame.tf_cs = GD_KT
    /\ HasEv("monitor")
    /\ EndsReached = {Len(trace)}

(***************************************************************************)
(* C14 as stated: the trap numbers with a gate after trap_init are exactly *)
(* the trap numbers trapname names other than "(unknown trap)", and there  *)
(* are 20 of them: 19 numbered exception vectors and the syscall vector.   *)
(***************************************************************************)
\* the trap numbers trap_init gave a gate
GatedVectors == {v \in DOMAIN idt : idt[v].gd_p = 1}

\* the trap numbers the catalog names
CatalogVectors == {v \in 0..(NIDT - 1) : trapname(v) # "(unknown trap)"}

C14_Original ==
    pc # "trap_init" =>
      /\ GatedVectors = CatalogVectors
      /\ Cardinality(GatedVectors) = 20

(***************************************************************************)
(* C14 amended: every trap number with a gate after trap_init has a name   *)
(* other than "(unknown trap)" in trapname; the converse fails for vector  *)
(* 9 alone ("Coprocessor Segment Overrun"), which is named and has no      *)
(* gate.  The gates are 18 numbered exception vectors and the syscall      *)
(* vector; the names are 19 numbered vectors and the syscall vector.       *)
(***************************************************************************)
C14_GatesAreNamed ==
    pc # "trap_init" =>
      /\ GatedVectors \subseteq CatalogVectors
      /\ CatalogVectors \ GatedVectors = {9}
      /\ trapname(9) = "Coprocessor Segment Overrun"
      /\ Cardinality(GatedVectors \ {T_SYSCALL}) = 18
      /\ Cardinality(CatalogVectors \ {T_SYSCALL}) = 19
      /\ T_SYSCALL \in GatedVectors

C14_Witness ==
    /\ pc = "trap_init_percpu"
    /\ idt[T_SIMDERR].gd_p = 1
    /\ idt[9].gd_p = 0
    /\ trapname(T_SIMDERR) = "SIMD Floating-Point Exception"
    /\ 9 \in CatalogVectors

(***************************************************************************)
(* C15: for every int trapno, negative and past the end of the table       *)
(* included, trapname returns excnames[trapno] for 0 <= trapno <= 19,      *)
(* "System call" for T_SYSCALL and "(unknown trap)" for every other        *)
(* number, and reads no element outside excnames.                          *)
(***************************************************************************)
C15_TrapnameTotal ==
    \A i \in DOMAIN trace :
       trace[i].ev = "trapname" =>
         LET n == trace[1].trapno
         IN  /\ trace[i].name # "<read outside excnames>"
             /\ trace[i].name =
                  (IF n \in 0..19 THEN excnames[n + 1]
                   ELSE IF n = T_SYSCALL THEN "System call"
                   ELSE "(unknown trap)")

C15_Witness ==
    /\ pc = "fn_origin"
    /\ trace[1].trapno = 0 - 1
    /\ trace[2] = [ev |-> "trapname", name |-> "(unknown trap)"]

(***************************************************************************)
(* C16: once trap_init and trap_init_percpu have returned, no step writes  *)
(* idt or ts: in and after every trap both hold the values boot gave them. *)
(***************************************************************************)
\* idt as trap_init leaves it
BootIdt ==
    [v \in 0..(NIDT - 1) |->
       IF \E k \in DOMAIN TrapInitGates : TrapInitGates[k].vec = v
       THEN TrapInitGates[CHOOSE k \in DOMAIN TrapInitGates : TrapInitGates[k].vec = v].gate
       ELSE ZeroGate]

C16_BootStateReadOnly ==
    /\ [](pc \notin {"trap_init", "trap_init_percpu"} =>
            (idt = BootIdt /\ ts = [ts_esp0 |-> KSTACKTOP, ts_ss0 |-> GD_KD]))
    /\ [][(pc \notin {"trap_init", "trap_init_percpu"}) =>
            (idt' = idt /\ ts' = ts)]_vars

C16_Witness ==
    /\ pc = "env_run"
    /\ ntraps = 1
    /\ HasEv("syscall")
    /\ ts.ts_esp0 = KSTACKTOP
    /\ idt = BootIdt

(***************************************************************************)
(* C17 as stated: for every value of the saved code segment, the test of   *)
(* trap, the test of trap_dispatch, the test of page_fault_handler and the *)
(* test of print_trapframe give the same origin, user or kernel.           *)
(***************************************************************************)
\* the four tests of an "origin" entry read as "the frame is user-origin"
OriginVotes(o) ==
    {o.trap_user, ~o.dispatch_kernel, ~o.pgflt_kernel, o.print_user}

C18_CurenvNotNull ==
    /\ pc # "undefined"
    /\ ~HasEv("undefined")
    /\ (pc = "unexpected" /\ Deref(tf).tf_cs # GD_KT) => curenv # NULL
    /\ (pc = "page_fault_handler" /\ Deref(tf).tf_cs % 4 # 0) => curenv # NULL
    /\ (pc = "trap_copy" /\ Deref(tf).tf_cs % 4 = 3) => curenv # NULL
    /\ tf.kind = "env_tf" => tf.env \in Envs
    /\ \A i \in DOMAIN trace :
         /\ trace[i].ev = "env_destroy" => trace[i].env \in Envs
         /\ trace[i].ev = "user fault" =>
              (entry.curenv \in Envs /\ trace[i].env_id = envs[entry.curenv].env_id)

C18_Witness ==
    /\ pc = "trap_ret"
    /\ entry.frame.tf_trapno = T_PGFLT
    /\ entry.curenv = 2
    /\ trace[2].ev = "user fault"
    /\ trace[2].env_id = envs[2].env_id
    /\ trace[Len(trace)] = [ev |-> "env_destroy", env |-> 2]

(***************************************************************************)
(* C19: when a syscall trap from an environment ends in env_run for that   *)
(* same environment, the frame env_run resumes from is the frame that      *)
(* entered trap with reg_eax replaced by the value syscall returned (as an *)
(* unsigned word); the value was written to curenv->env_tf, and the frame  *)
(* on the kernel stack still is the frame that entered.                    *)
(***************************************************************************)
C19_SyscallRoundTrip ==
    (Accepted /\ pc = "env_run" /\ entry.frame.tf_trapno = T_SYSCALL
     /\ entry.frame.tf_cs % 4 = 3 /\ curenv = entry.curenv) =>
      LET resumed == [entry.frame EXCEPT !.tf_regs.reg_eax = trace[2].ret % WordMod]
      IN  /\ trace[2].ev = "syscall"
          /\ trace[Len(trace)] = [ev |-> "env_run", env |-> curenv, frame |-> resumed]
          /\ envs[curenv].env_tf = resumed
          /\ tf_stack = entry.frame
          /\ tf = EnvTfPtr(curenv)

C19_Witness ==
    /\ pc = "env_run"
    /\ Accepted
    /\ entry.frame.tf_regs = SyscallScenarioRegs
    /\ curenv = entry.curenv
    /\ trace[2].ev = "syscall"
    /\ trace[2].ret = 0 - 3
    /\ envs[curenv].env_tf.tf_regs.reg_eax = WordMod - 3
    /\ envs[curenv].env_tf.tf_regs.reg_edx = 10
    /\ tf_stack.tf_regs.reg_eax = 5

(***************************************************************************)
(* C20: in a trap that is not user-origin no env_tf is written and the     *)
(* dispatcher works on the frame on the kernel stack; from the call of     *)
(* trap_dispatch on, last_tf is the frame the dispatcher works on          *)
(* (curenv->env_tf of the interrupted environment for a user-origin trap); *)
(* and print_trapframe, the only reader of last_tf, prints the cr2 line    *)
(* exactly for a page-fault frame that is last_tf, all else it prints      *)
(* being given by the frame alone.                                         *)
(***************************************************************************)
\* positions from the call of trap_dispatch to the return path of trap
DispatchPcs ==
    {"trap_dispatch", "monitor", "syscall_handler", "page_fault_handler",
     "unexpected", "trap_ret"}

C20_LastTfIsDispatchFrame ==
    /\ [](pc \in DispatchPcs =>
            /\ last_tf = tf
            /\ tf = (IF entry.frame.tf_cs % 4 = 3 THEN EnvTfPtr(entry.curenv)
                     ELSE StackPtr))
    /\ [](\A i \in DOMAIN trace :
            trace[i].ev = "print_trapframe" =>
              /\ trace[i].at = last_tf
              /\ trace[i].cr2 =
                   (IF trace[i].frame.tf_trapno = T_PGFLT THEN << cr2 >> ELSE << >>)
              /\ trace[i].name = trapname(trace[i].frame.tf_trapno)
              /\ trace[i].stack = (trace[i].frame.tf_cs % 4 # 0)
              /\ trace[i].frame.tf_trapno = entry.frame.tf_trapno
              /\ trace[i].frame.tf_eip = entry.frame.tf_eip)
    /\ [][(pc \in (HandlingPcs \cup {"trap"}) /\ entry.frame.tf_cs % 4 # 3) =>
            (\A e \in Envs : envs'[e].env_tf = envs[e].env_tf)]_vars
    /\ [][(pc \in DispatchPcs) => (last_tf' = last_tf /\ tf' = tf)]_vars

C20_Witness ==
    /\ pc = "panic"
    /\ entry.frame.tf_trapno = T_DIVIDE
    /\ entry.frame.tf_cs = GD_KT
    /\ curenv # NULL
    /\ envs[curenv].env_tf = InitialEnvFrame
    /\ tf = StackPtr
    /\ last_tf = StackPtr
    /\ trace[2].ev = "print_trapframe"
    /\ trace[2].cr2 = << >>

====
